---- MODULE Spec2Model ----
(***************************************************************************)
(* BufNMF (src/native/src/buf_nmf.cpp): the N-API wrapper that decomposes  *)
(* a signal with NMF (process) and resynthesizes one component             *)
(* (resynthesize).  The instance state is the six configuration members;   *)
(* every call is one synchronous handler run.  The flucoma-core stages     *)
(* (STFT, NMF, RatioMask, ISTFT) are not part of the wrapper: they appear  *)
(* as stages that either complete or raise std::exception.                 *)
(***************************************************************************)
EXTENDS Integers, Sequences, FiniteSets, TLC

VARIABLES mComponents, mIterations, mFFTSize, mHopSize, mWindowSize, mSeed,
          pc, call, cfg0, saved

members == <<mComponents, mIterations, mFFTSize, mHopSize, mWindowSize, mSeed>>
vars == <<mComponents, mIterations, mFFTSize, mHopSize, mWindowSize, mSeed,
          pc, call, cfg0, saved>>

(***************************************************************************)
(* Bounds of the model.                                                    *)
(***************************************************************************)
MaxSamples == 2
MaxRows == 2
MaxValue == 2

\* std::numeric_limits<double>::epsilon(), in the unit the magnitudes are
\* counted in: a magnitude of 1 is half of epsilon.
Epsilon == 2

(***************************************************************************)
(* Member initialisers of the class.                                       *)
(***************************************************************************)
DefaultComponents == 1
DefaultIterations == 100
DefaultFFTSize == 1024
DefaultHopSize == -1
DefaultWindowSize == -1
DefaultSeed == -1

(***************************************************************************)
(* The options object of the constructor.  A field is <<>> when the option *)
(* is absent (or not a number) and <<v>> when it is the number v.          *)
(***************************************************************************)
ComponentsOpts == {<<>>, <<0>>, <<2>>}
IterationsOpts == {<<>>, <<0>>}
FFTSizeOpts == {<<0>>, <<2>>, <<4>>}
HopSizeOpts == {<<>>, <<0>>, <<2>>}
WindowSizeOpts == {<<>>, <<0>>, <<3>>}
SeedOpts == {<<>>, <<0>>}

OptionsSet ==
    [components : ComponentsOpts, iterations : IterationsOpts,
     fftSize : FFTSizeOpts, hopSize : HopSizeOpts,
     windowSize : WindowSizeOpts, seed : SeedOpts]

\* options.Has(name) && options.Get(name).IsNumber() ? Int32Value : initialiser
OptionOr(opt, default) == IF opt # <<>> THEN opt[1] ELSE default

\* BufNMF::BufNMF: the members after construction from the options object.
Construct(options) ==
    [components |-> OptionOr(options.components, DefaultComponents),
     iterations |-> OptionOr(options.iterations, DefaultIterations),
     fftSize    |-> OptionOr(options.fftSize, DefaultFFTSize),
     hopSize    |-> OptionOr(options.hopSize, DefaultHopSize),
     windowSize |-> OptionOr(options.windowSize, DefaultWindowSize),
     seed       |-> OptionOr(options.seed, DefaultSeed)]

\* The six members as one record.
Members ==
    [components |-> mComponents, iterations |-> mIterations,
     fftSize |-> mFFTSize, hopSize |-> mHopSize,
     windowSize |-> mWindowSize, seed |-> mSeed]

(***************************************************************************)
(* Values crossing the binding.                                            *)
(***************************************************************************)
Null == [kind |-> "null"]
NoReturn == [kind |-> "none"]
NoCall == [op |-> "none"]
NoSaved == [kind |-> "none"]
Undefined == [kind |-> "undefined"]

\* A row of len numbers, entry j (0-based) holding val + j.
MkRow(len, val) == [j \in 1..len |-> val + j - 1]

\* n rows of len numbers each, row i (0-based) starting at 1 + i.
MkArray(n, len) == [i \in 1..n |-> MkRow(len, i)]

\* C++ integer division (operands are non-negative here).
CDiv(a, b) == a \div b

(***************************************************************************)
(* Frame grid, computed alike at the head of both handlers.                *)
(***************************************************************************)
\* int hopSize = mHopSize > 0 ? mHopSize : mFFTSize / 2;
EffectiveHopSize(m) == IF m.hopSize > 0 THEN m.hopSize ELSE CDiv(m.fftSize, 2)

\* int windowSize = mWindowSize > 0 ? mWindowSize : mFFTSize;
EffectiveWindowSize(m) == IF m.windowSize > 0 THEN m.windowSize ELSE m.fftSize

\* fluid::index nBins = mFFTSize / 2 + 1;
NBins(m) == CDiv(m.fftSize, 2) + 1

\* The outcomes of the size_t division by a zero hopSize (undefined
\* behaviour): the division traps and the process dies, or it yields 0.
DivByZeroOutcomes == {"trap", "zero"}

\* nWindows = floor((numSamples + hopSize) / hopSize), an integer division.
FrameCount(numSamples, hopSize, ub) ==
    IF hopSize = 0 THEN 0 ELSE CDiv(numSamples + hopSize, hopSize)

\* The locals both handlers derive from the members and the signal length.
Locals(m, numSamples, ub) ==
    [hopSize |-> EffectiveHopSize(m), windowSize |-> EffectiveWindowSize(m),
     nBins |-> NBins(m),
     nWindows |-> FrameCount(numSamples, EffectiveHopSize(m), ub)]

\* The division traps: the handler never returns.
Traps(m, ub) == EffectiveHopSize(m) = 0 /\ ub = "trap"

(***************************************************************************)
(* Library stages.  throwAt = 0: every stage completes; throwAt = s: stage *)
(* s raises std::exception, which the handler's catch clause receives.     *)
(***************************************************************************)
ProcessStages == <<"STFT", "magnitude", "NMF">>
ResynthesizeStages == <<"STFT", "estimate", "fullMag", "mask", "ISTFT">>

StagesRun(stages, throwAt) ==
    IF throwAt = 0 THEN stages ELSE SubSeq(stages, 1, throwAt)

Completed(stages, throwAt, stage) ==
    \E s \in 1..Len(stages) :
        stages[s] = stage /\ (throwAt = 0 \/ s < throwAt)

Reached(stages, throwAt, stage) ==
    \E s \in 1..Len(stages) :
        stages[s] = stage /\ (throwAt = 0 \/ s <= throwAt)

\* The values system entropy can seed the factorization with.
EntropyValues == {0, 1}

\* algorithm::NMF::process: the factorization of the magnitude spectrogram of
\* signal sig into bases (rank x nBins) and activations (nWindows x rank).
\* Initialisation is seeded by seed when seed >= 0, by entropy otherwise.
NMFProcess(sig, nWindows, nBins, rank, iterations, seed, entropy) ==
    LET rng == IF seed >= 0 THEN 2 * seed ELSE 2 * entropy + 1
    IN  [bases |-> [k \in 1..rank |-> [b \in 1..nBins |->
                        (rng + sig + k + b) % (MaxValue + 1)]],
         activations |-> [f \in 1..nWindows |-> [k \in 1..rank |->
                        (rng + sig + f + 2 * k) % (MaxValue + 1)]]]

(***************************************************************************)
(* BufNMF::Process                                                         *)
(***************************************************************************)
\* Faulty variant: the seed is left at the library's default.
SeedArgDefault(m) == DefaultSeed

\* The seed argument of nmf.process.
SeedArg(m) == m.seed

\* nmf.process(magnitude, bases, activations, reconstructed,
\*             mComponents, mIterations, true, true, mSeed)
NMFArgs(m) == [rank |-> m.components, iterations |-> m.iterations,
               seed |-> SeedArg(m)]

\* basesArray: mComponents arrays of nBins numbers, bases(i, j).
BasesToJS(bases, components, nBins) ==
    [i \in 1..components |-> [j \in 1..nBins |-> bases[i][j]]]

\* Faulty variant: one array per frame, each holding one value per component.
ActivationsToJSByFrame(activations, components, nWindows) ==
    [j \in 1..nWindows |-> [i \in 1..components |-> activations[j][i]]]

\* activationsArray: mComponents arrays of nWindows numbers, activations(j, i).
ActivationsToJS(activations, components, nWindows) ==
    [i \in 1..components |-> [j \in 1..nWindows |-> activations[j][i]]]

\* Faulty variant: the catch clause returns what the handler had built so far.
CatchReturnPartial(partial) == partial

\* What the catch clause of either handler returns.
CatchReturn(partial) == Null

\* The result object, populated after nmf.process returned.
ProcessObject(m, loc, nmf) ==
    [kind |-> "object", components |-> m.components,
     iterations |-> m.iterations, converged |-> TRUE,
     bases |-> BasesToJS(nmf.bases, m.components, loc.nBins),
     activations |-> ActivationsToJS(nmf.activations, m.components, loc.nWindows)]

\* The result object as created before the try block: no property set.
EmptyObject == [kind |-> "object"]

\* The arguments and the external choices of one process call.
ProcessArgs(m) ==
    {[argsOk |-> FALSE, numSamples |-> 0, throwAt |-> 0, entropy |-> 0, ub |-> "none"]}
    \cup
    [argsOk : {TRUE}, numSamples : 0..MaxSamples,
     throwAt : 0..Len(ProcessStages),
     entropy : IF SeedArg(m) < 0 THEN EntropyValues ELSE {0},
     ub : IF EffectiveHopSize(m) = 0 THEN DivByZeroOutcomes ELSE {"none"}]

\* The handler from entry to return: what it throws, returns and ran.
ProcessOutcome(m, a) ==
    IF ~a.argsOk
    THEN [op |-> "process", args |-> a, thrown |-> "TypeError", ret |-> Null,
          work |-> <<>>, nmfArgs |-> <<>>, locals |-> <<>>, factors |-> <<>>]
    ELSE LET loc == Locals(m, a.numSamples, a.ub)
             nmf == NMFProcess(a.numSamples, loc.nWindows, loc.nBins,
                               NMFArgs(m).rank, NMFArgs(m).iterations,
                               NMFArgs(m).seed, a.entropy)
         IN  [op |-> "process", args |-> a,
              thrown |-> IF a.throwAt = 0 THEN "none" ELSE "Error",
              ret |-> IF a.throwAt = 0 THEN ProcessObject(m, loc, nmf)
                      ELSE CatchReturn(EmptyObject),
              work |-> StagesRun(ProcessStages, a.throwAt),
              nmfArgs |-> IF Reached(ProcessStages, a.throwAt, "NMF")
                          THEN <<NMFArgs(m)>> ELSE <<>>,
              locals |-> <<loc>>,
              factors |-> IF Completed(ProcessStages, a.throwAt, "NMF")
                          THEN <<nmf>> ELSE <<>>]

\* Faulty variant: process widens mFFTSize in place to hold the window.
MembersAfterProcessFixFFT(m, a) ==
    [m EXCEPT !.fftSize = IF EffectiveWindowSize(m) > m.fftSize
                          THEN EffectiveWindowSize(m) ELSE m.fftSize]

\* The members when process returns: the handler assigns to none of them.
MembersAfterProcess(m, a) == m

SetMembers(m) ==
    /\ mComponents' = m.components
    /\ mIterations' = m.iterations
    /\ mFFTSize' = m.fftSize
    /\ mHopSize' = m.hopSize
    /\ mWindowSize' = m.windowSize
    /\ mSeed' = m.seed

Process ==
    /\ pc = "idle"
    /\ \E a \in ProcessArgs(Members) :
        IF a.argsOk /\ Traps(Members, a.ub)
        THEN /\ pc' = "crashed"
             /\ call' = [op |-> "process", args |-> a, thrown |-> "none",
                         ret |-> NoReturn, work |-> <<>>, nmfArgs |-> <<>>,
                         locals |-> <<>>, factors |-> <<>>]
             /\ UNCHANGED members
        ELSE /\ pc' = "returned"
             /\ call' = ProcessOutcome(Members, a)
             /\ SetMembers(MembersAfterProcess(Members, a))
    /\ UNCHANGED <<cfg0, saved>>

(***************************************************************************)
(* The caller between two calls.                                           *)
(***************************************************************************)
\* The caller drops the returned value (or catches the exception).
Return ==
    /\ pc = "returned"
    /\ pc' = "idle"
    /\ call' = NoCall
    /\ UNCHANGED <<members, cfg0, saved>>

\* The caller keeps the decomposition it was returned.
Persist ==
    /\ pc = "returned"
    /\ call.op = "process"
    /\ call.ret.kind = "object"
    /\ saved = NoSaved
    /\ pc' = "idle"
    /\ call' = NoCall
    /\ saved' = [kind |-> "decomposition", args |-> call.args, ret |-> call.ret,
                 factors |-> call.factors[1]]
    /\ UNCHANGED <<members, cfg0>>

Init ==
    /\ \E options \in OptionsSet :
        /\ mComponents = Construct(options).components
        /\ mIterations = Construct(options).iterations
        /\ mFFTSize = Construct(options).fftSize
        /\ mHopSize = Construct(options).hopSize
        /\ mWindowSize = Construct(options).windowSize
        /\ mSeed = Construct(options).seed
        /\ cfg0 = Construct(options)
    /\ pc = "idle"
    /\ call = NoCall
    /\ saved = NoSaved

(***************************************************************************)
(* BufNMF::Resynthesize                                                    *)
(***************************************************************************)
\* uint32_t numComponents = basesJS.Length();
NumComponents(basesJS) == Len(basesJS)

\* !(componentIndex < 0 || componentIndex >= static_cast<int>(numComponents))
IndexInRange(componentIndex, numComponents) ==
    ~(componentIndex < 0 \/ componentIndex >= numComponents)

\* Load bases: entry (i, j) is written for j < basis.Length() && j < nBins;
\* the tensor is zero where nothing is written.
LoadBases(basesJS, numComponents, nBins) ==
    [i \in 1..numComponents |-> [j \in 1..nBins |->
        IF j <= Len(basesJS[i]) THEN basesJS[i][j] ELSE 0]]

\* Faulty variant: activationsJS is read as one array per frame, each holding
\* one value per component.
LoadActivationsByFrame(activationsJS, numComponents, nWindows) ==
    [j \in 1..nWindows |-> [i \in 1..numComponents |->
        IF j <= Len(activationsJS) /\ i <= Len(activationsJS[j])
        THEN activationsJS[j][i] ELSE 0]]

\* Load activations: entry (j, i) is written for j < activation.Length() &&
\* j < nWindows; the tensor is zero where nothing is written.
LoadActivations(activationsJS, numComponents, nWindows) ==
    [j \in 1..nWindows |-> [i \in 1..numComponents |->
        IF j <= Len(activationsJS[i]) THEN activationsJS[i][j] ELSE 0]]

\* activationsJS.Get(i) is undefined for i >= activationsJS.Length(), and
\* Length() of a value that is no array raises Napi::Error.
LoadThrows(activationsJS, numComponents) == numComponents > Len(activationsJS)

\* algorithm::NMF::estimate: the magnitude of component idx, the outer product
\* of column idx of activations and row idx of bases.
Estimate(bases, activations, idx, nWindows, nBins) ==
    [f \in 1..nWindows |-> [b \in 1..nBins |->
        activations[f][idx + 1] * bases[idx + 1][b]]]

\* Faulty variant: the loop starts at i = 1 and leaves component 0 out.
RECURSIVE FullMagSumFromOne(_, _, _, _, _)
FullMagSumFromOne(bases, activations, upTo, nWindows, nBins) ==
    IF upTo <= 1
    THEN [f \in 1..nWindows |-> [b \in 1..nBins |-> 0]]
    ELSE LET acc == FullMagSumFromOne(bases, activations, upTo - 1, nWindows, nBins)
             tmpMag == Estimate(bases, activations, upTo - 1, nWindows, nBins)
         IN  [f \in 1..nWindows |-> [b \in 1..nBins |-> acc[f][b] + tmpMag[f][b]]]

\* fullMag(row, col) += tmpMag(row, col) for i = 0 .. upTo - 1.
RECURSIVE FullMagSum(_, _, _, _, _)
FullMagSum(bases, activations, upTo, nWindows, nBins) ==
    IF upTo = 0
    THEN [f \in 1..nWindows |-> [b \in 1..nBins |-> 0]]
    ELSE LET acc == FullMagSum(bases, activations, upTo - 1, nWindows, nBins)
             tmpMag == Estimate(bases, activations, upTo - 1, nWindows, nBins)
         IN  [f \in 1..nWindows |-> [b \in 1..nBins |-> acc[f][b] + tmpMag[f][b]]]

\* The larger of two numbers.
Max(a, b) == IF a >= b THEN a ELSE b

RECURSIVE Power(_, _)
Power(x, exponent) == IF exponent <= 0 THEN 1 ELSE x * Power(x, exponent - 1)

\* A ratio num / den held in [0, 1].
Clamp01(num, den) ==
    IF num < 0 THEN [num |-> 0, den |-> den]
    ELSE IF num > den THEN [num |-> den, den |-> den]
    ELSE [num |-> num, den |-> den]

\* algorithm::RatioMask::init: per bin the floored total, max(total, epsilon).
RatioMaskInit(totalMag, nWindows, nBins) ==
    [f \in 1..nWindows |-> [b \in 1..nBins |-> Max(totalMag[f][b], Epsilon)]]

\* algorithm::RatioMask::process: per bin the mask the spectrum is multiplied
\* by, (targetMag / max(total, epsilon)) ^ exponent clamped to [0, 1], as the
\* ratio num / den.
RatioMaskProcess(floored, targetMag, exponent, nWindows, nBins) ==
    [f \in 1..nWindows |-> [b \in 1..nBins |->
        Clamp01(Power(targetMag[f][b], exponent), Power(floored[f][b], exponent))]]

\* mask.process(spectrum, componentMag, 1, componentSpectrum)
MaskExponent == 1

\* Faulty variant: the mask is initialised with the component's own magnitude.
ComponentMaskOverTarget(fullMag, componentMag, nWindows, nBins) ==
    RatioMaskProcess(RatioMaskInit(componentMag, nWindows, nBins), componentMag,
                     MaskExponent, nWindows, nBins)

\* mask.init(fullMag); mask.process(spectrum, componentMag, 1, ...)
ComponentMask(fullMag, componentMag, nWindows, nBins) ==
    RatioMaskProcess(RatioMaskInit(fullMag, nWindows, nBins), componentMag,
                     MaskExponent, nWindows, nBins)

\* Faulty variant: the output holds one hop per frame.
OutputLengthFrames(numSamples, loc) == loc.nWindows * loc.hopSize

\* Float32Array::New(env, numSamples)
OutputLength(numSamples, loc) == numSamples

\* Arrays of 0..MaxRows rows whose length is n - 1, n or n + 1.
ArraysAround(n) ==
    {MkArray(r, len) : r \in 0..MaxRows, len \in {n - 1, n, n + 1} \cap Nat}

\* Where the library raises in one call: nowhere, in its first stage or in
\* its last.
ResynthesizeThrowPoints == {0, 1, Len(ResynthesizeStages)}

\* The arguments and the external choices of one resynthesize call.
ResynthesizeArgs(m) ==
    {[argsOk |-> FALSE, numSamples |-> 0, basesJS |-> <<>>,
      activationsJS |-> <<>>, componentIndex |-> 0, throwAt |-> 0,
      ub |-> "none"]}
    \cup
    UNION {
        [argsOk : {TRUE}, numSamples : {n},
         basesJS : ArraysAround(NBins(m)),
         activationsJS : ArraysAround(FrameCount(n, EffectiveHopSize(m), "zero")),
         componentIndex : -1..MaxRows,
         throwAt : ResynthesizeThrowPoints,
         ub : IF EffectiveHopSize(m) = 0 THEN DivByZeroOutcomes ELSE {"none"}]
        : n \in 0..MaxSamples}

\* The handler from entry to return: what it throws, returns and ran.
ResynthesizeOutcome(m, a) ==
    LET base == [op |-> "resynthesize", args |-> a, thrown |-> "none",
                 ret |-> Null, work |-> <<>>, locals |-> <<>>,
                 tensors |-> <<>>, componentMag |-> <<>>, fullMag |-> <<>>,
                 mask |-> <<>>]
    IN
    IF ~a.argsOk
    THEN [base EXCEPT !.thrown = "TypeError"]
    ELSE LET loc == Locals(m, a.numSamples, a.ub)
             numComponents == NumComponents(a.basesJS)
         IN
         IF ~IndexInRange(a.componentIndex, numComponents)
         THEN [base EXCEPT !.thrown = "IndexError", !.locals = <<loc>>]
         ELSE IF LoadThrows(a.activationsJS, numComponents)
         THEN [base EXCEPT !.thrown = "Error", !.locals = <<loc>>,
                           !.ret = CatchReturn(Undefined)]
         ELSE LET bases == LoadBases(a.basesJS, numComponents, loc.nBins)
                  activations == LoadActivations(a.activationsJS, numComponents,
                                                 loc.nWindows)
              IN  [base EXCEPT
                    !.thrown = IF a.throwAt = 0 THEN "none" ELSE "Error",
                    !.ret = IF a.throwAt = 0
                            THEN [kind |-> "Float32Array",
                                  length |-> OutputLength(a.numSamples, loc)]
                            ELSE CatchReturn(Undefined),
                    !.work = StagesRun(ResynthesizeStages, a.throwAt),
                    !.locals = <<loc>>,
                    !.tensors = <<[bases |-> bases, activations |-> activations]>>,
                    !.componentMag =
                        IF Completed(ResynthesizeStages, a.throwAt, "estimate")
                        THEN <<Estimate(bases, activations, a.componentIndex,
                                        loc.nWindows, loc.nBins)>>
                        ELSE <<>>,
                    !.fullMag =
                        IF Completed(ResynthesizeStages, a.throwAt, "fullMag")
                        THEN <<FullMagSum(bases, activations, numComponents,
                                          loc.nWindows, loc.nBins)>>
                        ELSE <<>>,
                    !.mask =
                        IF Completed(ResynthesizeStages, a.throwAt, "mask")
                        THEN <<ComponentMask(
                                 FullMagSum(bases, activations, numComponents,
                                            loc.nWindows, loc.nBins),
                                 Estimate(bases, activations, a.componentIndex,
                                          loc.nWindows, loc.nBins),
                                 loc.nWindows, loc.nBins)>>
                        ELSE <<>>]

\* Faulty variant: resynthesize keeps the number of supplied bases in mComponents.
MembersAfterResynthesizeCaching(m, a) ==
    [m EXCEPT !.components = IF a.argsOk THEN NumComponents(a.basesJS)
                             ELSE m.components]

\* The members when resynthesize returns: the handler assigns to none of them.
MembersAfterResynthesize(m, a) == m

\* One run of the handler on the arguments a.
ResynthesizeCall(a) ==
    IF a.argsOk /\ Traps(Members, a.ub)
    THEN /\ pc' = "crashed"
         /\ call' = [op |-> "resynthesize", args |-> a, thrown |-> "none",
                     ret |-> NoReturn, work |-> <<>>, locals |-> <<>>,
                     tensors |-> <<>>, componentMag |-> <<>>,
                     fullMag |-> <<>>, mask |-> <<>>]
         /\ UNCHANGED members
    ELSE /\ pc' = "returned"
         /\ call' = ResynthesizeOutcome(Members, a)
         /\ SetMembers(MembersAfterResynthesize(Members, a))

Resynthesize ==
    /\ pc = "idle"
    /\ \E a \in ResynthesizeArgs(Members) : ResynthesizeCall(a)
    /\ UNCHANGED <<cfg0, saved>>

\* The arguments of a resynthesize call that hands back the signal and the
\* bases and activations of the decomposition the caller kept.
SavedArgs(m) ==
    [argsOk : {TRUE}, numSamples : {saved.args.numSamples},
     basesJS : {saved.ret.bases},
     activationsJS : {saved.ret.activations},
     componentIndex : -1..Len(saved.ret.bases),
     throwAt : ResynthesizeThrowPoints,
     ub : IF EffectiveHopSize(m) = 0 THEN DivByZeroOutcomes ELSE {"none"}]

\* resynthesize called with the decomposition the caller kept.
ResynthesizeSaved ==
    /\ pc = "idle"
    /\ saved # NoSaved
    /\ \E a \in SavedArgs(Members) : ResynthesizeCall(a)
    /\ UNCHANGED <<cfg0, saved>>

(***************************************************************************)
(* Specifications.                                                         *)
(***************************************************************************)
\* Any sequence of calls with any arguments; every result is dropped.
Next == Process \/ Resynthesize \/ Return

Spec == Init /\ [][Next]_vars

\* A session: decompositions, one of which the caller keeps and hands back
\* to resynthesize.
NextSession == Process \/ Persist \/ ResynthesizeSaved \/ Return

SpecSession == Init /\ [][NextSession]_vars

(***************************************************************************)
(* Vocabulary of the properties.                                           *)
(***************************************************************************)
\* A call has ended: it returned to the caller or took the process down.
Ended(op) == pc \in {"returned", "crashed"} /\ call.op = op

\* A call has returned to the caller.
Returned(op) == pc = "returned" /\ call.op = op

\* The call was rejected: an exception is pending, nothing is returned and
\* no library stage ran.
RejectedBeforeWork ==
    pc = "returned" /\ call.thrown # "none" /\ call.ret = Null /\ call.work = <<>>

\* An option given explicitly with a non-positive value.
ExplicitNonPositive(value, default) == value <= 0 /\ value # default

\* The configurations the design rejects.
InvalidConfig(m) ==
    \/ m.components < 1
    \/ m.iterations < 1
    \/ m.fftSize <= 0
    \/ ExplicitNonPositive(m.hopSize, DefaultHopSize)
    \/ ExplicitNonPositive(m.windowSize, DefaultWindowSize)
    \/ EffectiveHopSize(m) <= 0
    \/ EffectiveWindowSize(m) > m.fftSize

\* The supplied factorization does not fit the K x B / K x F grid.
ShapeMismatch(a, nBins, nWindows) ==
    \/ \E i \in 1..Len(a.basesJS) : Len(a.basesJS[i]) # nBins
    \/ Len(a.activationsJS) # Len(a.basesJS)
    \/ \E i \in 1..Len(a.activationsJS) : Len(a.activationsJS[i]) # nWindows

(***************************************************************************)
(* C1: every well-typed resynthesize call whose componentIndex lies        *)
(* outside [0, K), K the number of supplied bases, fails with the index    *)
(* error, returns nothing and runs no numeric stage.                       *)
(***************************************************************************)
C1_IndexOutOfRangeRejected ==
    (/\ Ended("resynthesize")
     /\ call.args.argsOk
     /\ ~(0 <= call.args.componentIndex
          /\ call.args.componentIndex < Len(call.args.basesJS)))
    => (RejectedBeforeWork /\ call.thrown = "IndexError")

(***************************************************************************)
(* C2: under a valid configuration, every well-typed resynthesize call     *)
(* with an in-range index whose bases or activations do not fit the grid   *)
(* is rejected before any numeric stage and returns no signal.             *)
(***************************************************************************)
C2_ShapeMismatchRejected ==
    (/\ Returned("resynthesize")
     /\ call.args.argsOk
     /\ ~InvalidConfig(cfg0)
     /\ 0 <= call.args.componentIndex
     /\ call.args.componentIndex < Len(call.args.basesJS)
     /\ ShapeMismatch(call.args, call.locals[1].nBins, call.locals[1].nWindows))
    => RejectedBeforeWork

(***************************************************************************)
(* C3: every well-typed process call on an instance with an invalid        *)
(* configuration is rejected before any computation (stated for the calls  *)
(* that return and divide by no zero hop size).                            *)
(***************************************************************************)
C3_InvalidConfigRejected ==
    (/\ Returned("process")
     /\ call.args.argsOk
     /\ call.args.ub = "none"
     /\ InvalidConfig(cfg0))
    => RejectedBeforeWork

(***************************************************************************)
(* C4: under a valid configuration, every well-typed process call on a     *)
(* signal shorter than the effective window size fails and returns no      *)
(* result.                                                                 *)
(***************************************************************************)
C4_ShortInputRejected ==
    (/\ Returned("process")
     /\ call.args.argsOk
     /\ ~InvalidConfig(cfg0)
     /\ call.args.numSamples < EffectiveWindowSize(cfg0))
    => (call.thrown # "none" /\ call.ret = Null)

(***************************************************************************)
(* C5 as stated: under a valid configuration a successful process returns  *)
(* bases of K rows of B values and activations of F rows of K values.      *)
(***************************************************************************)
ExpectedBins == CDiv(cfg0.fftSize, 2) + 1

ExpectedFrames ==
    CDiv(call.args.numSamples + EffectiveHopSize(cfg0), EffectiveHopSize(cfg0))

Decomposed ==
    /\ Returned("process")
    /\ call.ret.kind = "object"
    /\ ~InvalidConfig(cfg0)

RowsOf(array, rows, columns) ==
    /\ Len(array) = rows
    /\ \A i \in 1..Len(array) : Len(array[i]) = columns

C5_ActivationsFxK ==
    Decomposed =>
        /\ RowsOf(call.ret.bases, cfg0.components, ExpectedBins)
        /\ RowsOf(call.ret.activations, ExpectedFrames, cfg0.components)

(***************************************************************************)
(* C5 amended: under a valid configuration a successful process returns    *)
(* bases of K rows of B values and activations of K rows (one per          *)
(* component) of F values, K = componentCount, B = fftSize/2 + 1,          *)
(* F = floor((N + hopSize) / hopSize).                                     *)
(***************************************************************************)
C5_ActivationsKxF ==
    Decomposed =>
        /\ RowsOf(call.ret.bases, cfg0.components, ExpectedBins)
        /\ RowsOf(call.ret.activations, cfg0.components, ExpectedFrames)

C5_Witness ==
    /\ Decomposed
    /\ cfg0.components = 2
    /\ ExpectedFrames = 3
    /\ ExpectedBins = 2
    /\ Len(call.ret.activations) = 2

(***************************************************************************)
(* C6: every successful resynthesize returns a signal of the length N of   *)
(* the input signal.                                                       *)
(***************************************************************************)
C6_OutputLengthIsN ==
    (Returned("resynthesize") /\ call.thrown = "none")
    => (call.ret.kind = "Float32Array" /\ call.ret.length = call.args.numSamples)

C6_Witness ==
    /\ Returned("resynthesize")
    /\ call.thrown = "none"
    /\ call.ret.kind = "Float32Array"
    /\ call.args.numSamples > 0
    /\ call.locals[1].nWindows * call.locals[1].hopSize # call.args.numSamples

(***************************************************************************)
(* C7: resynthesize can be called whenever the instance is idle, and what  *)
(* a call throws, returns, runs and computes is what the configuration the *)
(* instance was constructed with and the call's inputs determine, whatever *)
(* calls came before.                                                      *)
(***************************************************************************)
OutcomeOf(c) ==
    <<c.thrown, c.ret, c.work, c.tensors, c.componentMag, c.fullMag, c.mask>>

C7_ResynthesizePure ==
    /\ pc = "idle" => ENABLED Resynthesize
    /\ Returned("resynthesize")
       => OutcomeOf(call) = OutcomeOf(ResynthesizeOutcome(cfg0, call.args))

C7_Witness ==
    /\ Returned("resynthesize")
    /\ call.thrown = "none"
    /\ call.fullMag # <<>>
    /\ Len(call.args.basesJS) = 2
    /\ call.args.componentIndex = 1

(***************************************************************************)
(* C8: after construction the six configuration members keep the values    *)
(* the constructor gave them, whatever calls have run and however they     *)
(* ended.                                                                  *)
(***************************************************************************)
C8_ConfigUnchanged == Members = cfg0

C8_Witness ==
    /\ Returned("resynthesize")
    /\ call.thrown = "Error"
    /\ call.work = ResynthesizeStages
    /\ Members = cfg0

(***************************************************************************)
(* C9: a call that raises returns null, and a call that returns a value    *)
(* raised nothing and ran every stage: the value is complete.              *)
(***************************************************************************)
CompleteObject(ret) ==
    /\ DOMAIN ret = {"kind", "components", "iterations", "converged",
                     "bases", "activations"}
    /\ Len(ret.bases) = ret.components
    /\ Len(ret.activations) = ret.components

C9_NoPartialResult ==
    pc = "returned" =>
        /\ call.thrown # "none" => call.ret = Null
        /\ call.ret # Null =>
            /\ call.thrown = "none"
            /\ call.op = "process" =>
                (call.work = ProcessStages /\ call.ret.kind = "object"
                 /\ CompleteObject(call.ret))
            /\ call.op = "resynthesize" =>
                (call.work = ResynthesizeStages
                 /\ call.ret.kind = "Float32Array")

C9_Witness ==
    /\ Returned("process")
    /\ call.thrown = "Error"
    /\ call.work = ProcessStages
    /\ call.ret = Null

(***************************************************************************)
(* C10: the seed handed to the factorization is the configured seed on     *)
(* every call, and a decomposition of the same signal under the same       *)
(* configuration with a non-negative seed returns the bases and            *)
(* activations of the decomposition the caller kept.                       *)
(***************************************************************************)
SameInputAsSaved ==
    /\ Returned("process")
    /\ call.ret.kind = "object"
    /\ saved # NoSaved
    /\ saved.args.numSamples = call.args.numSamples
    /\ cfg0.seed >= 0

C10_SeededDecomposeRepeats ==
    /\ (Returned("process") /\ call.nmfArgs # <<>>)
       => call.nmfArgs[1].seed = cfg0.seed
    /\ SameInputAsSaved
       => (/\ call.ret.bases = saved.ret.bases
           /\ call.ret.activations = saved.ret.activations)

C10_Witness ==
    /\ SameInputAsSaved
    /\ ~InvalidConfig(cfg0)
    /\ cfg0.components = 2
    /\ call.args.numSamples = MaxSamples
    /\ call.ret.bases = saved.ret.bases

(***************************************************************************)
(* Vocabulary of the mask properties.                                      *)
(***************************************************************************)
\* A resynthesize call has returned with the mask computed.
Masked == Returned("resynthesize") /\ call.mask # <<>>

\* The time-frequency bins of the call.
Frames == 1..call.locals[1].nWindows
Bins == 1..call.locals[1].nBins

\* Every loaded basis and activation entry is non-negative.
NonNegativeFactors ==
    /\ \A k \in 1..Len(call.tensors[1].bases) : \A b \in Bins :
        call.tensors[1].bases[k][b] >= 0
    /\ \A f \in Frames : \A k \in 1..Len(call.tensors[1].bases) :
        call.tensors[1].activations[f][k] >= 0

\* The mask of bin (f, b) is a ratio over a positive denominator in [0, 1].
MaskInUnitInterval(f, b) ==
    /\ call.mask[1][f][b].den > 0
    /\ 0 <= call.mask[1][f][b].num
    /\ call.mask[1][f][b].num <= call.mask[1][f][b].den

RECURSIVE SeqSum(_)
SeqSum(s) == IF s = <<>> THEN 0 ELSE Head(s) + SeqSum(Tail(s))

\* Per supplied component k the product activations[f, k] * bases[k, b] of
\* the loaded matrices.
EstimatesAt(f, b) ==
    [k \in 1..Len(call.tensors[1].bases) |->
        call.tensors[1].activations[f][k] * call.tensors[1].bases[k][b]]

\* The mask the same call computes when it is asked for component k.
MaskOf(k) ==
    ResynthesizeOutcome(Members, [call.args EXCEPT !.componentIndex = k]).mask[1]

\* Per supplied component the numerator of its mask in bin (f, b).
MaskNumeratorsAt(f, b) ==
    [k \in 1..Len(call.tensors[1].bases) |-> MaskOf(k - 1)[f][b].num]

(***************************************************************************)
(* C12: in every bin the total magnitude the mask is initialised with is   *)
(* the sum over all supplied components of activations[f, k] * bases[k, b],*)
(* the requested component being one term of it, and the denominator of    *)
(* the mask is that total floored at epsilon; for non-negative bases and   *)
(* activations, in every bin whose total exceeds epsilon the masks of all  *)
(* components share the denominator total and their numerators add up to   *)
(* it, so the masks sum to 1.                                              *)
(***************************************************************************)
C12_MasksShareTotalAndSumToOne ==
    Masked =>
        \A f \in Frames : \A b \in Bins :
            /\ call.fullMag[1][f][b] = SeqSum(EstimatesAt(f, b))
            /\ call.componentMag[1][f][b]
                 = EstimatesAt(f, b)[call.args.componentIndex + 1]
            /\ call.mask[1][f][b].den = Max(call.fullMag[1][f][b], Epsilon)
            /\ (NonNegativeFactors /\ call.fullMag[1][f][b] > Epsilon)
               => (/\ call.mask[1][f][b].den = call.fullMag[1][f][b]
                   /\ \A k \in 1..Len(call.tensors[1].bases) :
                        MaskOf(k - 1)[f][b].den = call.fullMag[1][f][b]
                   /\ SeqSum(MaskNumeratorsAt(f, b)) = call.fullMag[1][f][b])

C12_Witness ==
    /\ Masked
    /\ NonNegativeFactors
    /\ ~InvalidConfig(cfg0)
    /\ call.thrown = "none"
    /\ Len(call.args.basesJS) = 2
    /\ \E f \in Frames : \E b \in Bins :
        /\ call.fullMag[1][f][b] > Epsilon
        /\ \A k \in 1..2 : EstimatesAt(f, b)[k] > 0
        /\ call.mask[1][f][b].num < call.mask[1][f][b].den
        /\ SeqSum(MaskNumeratorsAt(f, b)) = call.mask[1][f][b].den

(***************************************************************************)
(* Vocabulary of the round trip.                                           *)
(***************************************************************************)
\* A resynthesize call was handed the signal, the bases and the activations
\* of the decomposition the caller kept, and has returned.
HandedBack ==
    /\ Returned("resynthesize")
    /\ saved # NoSaved
    /\ call.args.numSamples = saved.args.numSamples
    /\ call.args.basesJS = saved.ret.bases
    /\ call.args.activationsJS = saved.ret.activations

\* Every row of the JS arrays fills its row or column of the tensors to the
\* end and stops there: nothing is cut off, nothing stays at its initial 0.
LoadedInFull ==
    /\ Len(call.args.basesJS) = Len(call.tensors[1].bases)
    /\ Len(call.args.activationsJS) = Len(call.tensors[1].bases)
    /\ \A i \in 1..Len(call.args.basesJS) :
        /\ Len(call.args.basesJS[i]) = call.locals[1].nBins
        /\ Len(call.args.activationsJS[i]) = call.locals[1].nWindows

(***************************************************************************)
(* C13: under a valid configuration, a resynthesize call handed the signal *)
(* and the unchanged bases and activations of a decomposition made by the  *)
(* same instance loads, for every componentIndex in [0, K), the K x B      *)
(* bases and the F x K activations matrices the factorization produced,    *)
(* every entry loaded from the arrays, none cut off, none left at 0.       *)
(***************************************************************************)
C13_DecompositionReadBack ==
    (HandedBack /\ ~InvalidConfig(cfg0)) =>
        /\ IndexInRange(call.args.componentIndex, cfg0.components)
           <=> call.tensors # <<>>
        /\ call.tensors # <<>> =>
            /\ call.tensors[1].bases = saved.factors.bases
            /\ call.tensors[1].activations = saved.factors.activations
            /\ RowsOf(call.tensors[1].bases, cfg0.components, ExpectedBins)
            /\ RowsOf(call.tensors[1].activations, ExpectedFrames,
                      cfg0.components)
            /\ LoadedInFull

C13_Witness ==
    /\ HandedBack
    /\ ~InvalidConfig(cfg0)
    /\ cfg0.components = 2
    /\ call.args.componentIndex = 1
    /\ call.thrown = "none"
    /\ call.tensors # <<>>
    /\ ExpectedFrames >= 2
    /\ call.tensors[1].activations = saved.factors.activations
    /\ \E f \in Frames : \E k \in 1..2 :
        /\ f # k
        /\ f <= 2
        /\ saved.factors.activations[f][k] # saved.factors.activations[k][f]

====
